---------------------------- MODULE Spec2Model ----------------------------
(***************************************************************************)
(* Transient solar/battery simulation (src/src/lib.rs).                    *)
(*                                                                         *)
(* Representation of the Rust values:                                      *)
(*   NaiveDateTime  seconds since 2023-01-01 00:00:00                      *)
(*   Duration       seconds                                                *)
(*   f32 power      milliwatts          f32 energy   milliwatt-hours       *)
(*   f32 hours      milliseconds (1 h = 3 600 000); NaN is the value NaN   *)
(*   f32 solar coefficient   thousandths (0 .. 1000)                       *)
(* Products and quotients of f32 values are fixed-point, rounded down.     *)
(***************************************************************************)
EXTENDS Integers, Sequences, FiniteSets, TLC

VARIABLES sim_state, state, end, pc, result, net, calls, probe, app, event

vars == <<sim_state, state, end, pc, result, net, calls, probe, app, event>>

-----------------------------------------------------------------------------
(* Bounds of the model *)

MaxDay == 3
MaxSpan == 2
MaxCalls == 2

-----------------------------------------------------------------------------
(* chrono: calendar of the year 2023 *)

SecondsPerDay == 86400
Noon == 43200
DaysIn2023 == 365

date(t) == t \div SecondsPerDay
time(t) == t % SecondsPerDay
ordinal0(t) == date(t)
midnight(d) == d * SecondsPerDay

\* with_ordinal refusing the last day of the year as well
with_ordinal_before_last(n) == n >= 1 /\ n < DaysIn2023

\* NaiveDate::with_ordinal on a date of 2023: None outside 1..365
with_ordinal_ok(n) == n >= 1 /\ n <= DaysIn2023

\* the day passed on as it is
day_unchanged(day) == day

\* match day { 0 => 1, _ => day }
day_or_first(day) == IF day = 0 THEN 1 ELSE day

-----------------------------------------------------------------------------
(* f32 helpers *)

NaN == 0 - 1

\* Rust `as u32` on an f32: NaN and negatives give 0, otherwise truncation.
\* The argument is in thousandths, the result in units.
as_u32(x) == IF x = NaN \/ x < 0 THEN 0 ELSE x \div 1000

\* f32::cos of 2*pi*ph/1000 in thousandths, for 0 <= ph <= 500
\* (Bhaskara's rational approximation, exact at 0, 1/6, 1/4, 1/3, 1/2 turn).
cos_quarter(q) == (1000 * (1000000 - 16 * q * q)) \div (1000000 + 4 * q * q)
cos(ph) == IF ph <= 250 THEN cos_quarter(ph) ELSE 0 - cos_quarter(500 - ph)

-----------------------------------------------------------------------------
(* SimState *)

Loads == {0, 20000}
Capacities == {0, 30000, 100000}
SolarOutputs == {0, 10000}
Latitudes == {0, 36, 80}
StepSizes == {2700, 7200, 18030}
Days == (0..MaxDay) \cup {364, 365, 366}

SimState_new ==
    [ load |-> 0, battery_capacity |-> 0, current_stored_energy |-> 0,
      solar_nominal_output |-> 0, charge_history |-> <<>>, latitude |-> 0,
      history_dates |-> <<>>, now |-> 0, step_size |-> 2700,
      start_day |-> 1, end_day |-> 364,
      solar_history |-> <<>>, daylight_history |-> <<>> ]

-----------------------------------------------------------------------------
(* Astronomical model *)

\* daylight_hours(lat, day) in milliseconds, the f32 formula evaluated for the
\* latitudes of the model and the days 0..5 and 362..365 of the year; at
\* latitude 80 the argument of acos is above 1 on all of them, which gives NaN.
DaylightEquator ==
    [d \in 0..5 |-> CASE d = 0 -> 42765879 [] d = 1 -> 42766171
                      [] d = 2 -> 42766483 [] d = 3 -> 42766813
                      [] d = 4 -> 42767166 [] OTHER -> 42767533]
    @@ [d \in 362..365 |-> CASE d = 362 -> 42765058 [] d = 363 -> 42765281
                             [] d = 364 -> 42765528 [] OTHER -> 42765796]

Daylight36 ==
    [d \in 0..5 |-> CASE d = 0 -> 34067495 [] d = 1 -> 34107670
                      [] d = 2 -> 34150651 [] d = 3 -> 34196405
                      [] d = 4 -> 34244896 [] OTHER -> 34296082]
    @@ [d \in 362..365 |-> CASE d = 362 -> 33955173 [] d = 363 -> 33985866
                             [] d = 364 -> 34019464 [] OTHER -> 34055938]

daylight_hours(lat, day) ==
    CASE lat = 0  -> DaylightEquator[day]
      [] lat = 36 -> Daylight36[day]
      [] OTHER    -> NaN

\* light_hours / 2. and 12. +- x on f32 hours: NaN stays NaN
half(light_hours) == IF light_hours = NaN THEN NaN ELSE light_hours \div 2
noon_minus(x) == IF x = NaN THEN NaN ELSE Noon * 1000 - x
noon_plus(x) == IF x = NaN THEN NaN ELSE Noon * 1000 + x

\* sunrise and sunset: seconds from midnight
sunrise(d, lat) == Noon - as_u32(half(daylight_hours(lat, d)))
sunset(d, lat) == Noon + as_u32(half(daylight_hours(lat, d)))

later_of(a, b) == IF a > b THEN a ELSE b
earlier_of(a, b) == IF a < b THEN a ELSE b

-----------------------------------------------------------------------------
(* Solar production curve *)

\* time_hours(time): the time of day as f32 hours, here in seconds
time_hours(t) == t

\* the curve without its offset of one half: 0.5 * cos(..)
curve_inside_no_offset(hour, light_hours) ==
    LET dist == IF hour >= Noon THEN hour - Noon ELSE Noon - hour
        ph == (dist * 1000) \div (light_hours \div 1000)
    IN  IF cos(ph) >= 0 THEN cos(ph) \div 2 ELSE 0 - ((0 - cos(ph)) \div 2)

\* 0.5 * cos(2 pi / light_hours * (hour - 12)) + 0.5, in thousandths
curve_inside(hour, light_hours) ==
    LET dist == IF hour >= Noon THEN hour - Noon ELSE Noon - hour
        ph == (dist * 1000) \div (light_hours \div 1000)
    IN  (cos(ph) + 1000) \div 2

\* the curve taking a day without a length of daylight for a polar day, at
\* full production
solar_production_curve_polar_day(t, lat) ==
    LET light_hours == daylight_hours(lat, ordinal0(t))
        rise == sunrise(date(t), lat)
        set == sunset(date(t), lat)
        hour == time_hours(time(t))
    IN  IF light_hours = NaN
        THEN 1000
        ELSE IF time(t) <= rise \/ time(t) >= set
             THEN 0
             ELSE curve_inside(hour, light_hours)

solar_production_curve(t, lat) ==
    LET light_hours == daylight_hours(lat, ordinal0(t))
        rise == sunrise(date(t), lat)
        set == sunset(date(t), lat)
        hour == time_hours(time(t))
    IN  IF time(t) <= rise \/ time(t) >= set
        THEN 0
        ELSE curve_inside(hour, light_hours)

\* solar_power(state): milliwatts
solar_power(s) ==
    LET start_coeff == solar_production_curve(s.now, s.latitude)
        end_coeff == solar_production_curve(s.now + s.step_size, s.latitude)
    IN  (s.solar_nominal_output * (start_coeff + end_coeff)) \div 2000

-----------------------------------------------------------------------------
(* Interval integrator *)

\* bounded_daylight_duration without the test for an interval that misses the
\* daylight window
bounded_daylight_duration_unguarded(start, stop, light_hours) ==
    LET rise == midnight(date(start)) + as_u32(noon_minus(half(light_hours)))
        set == midnight(date(start)) + as_u32(noon_plus(half(light_hours)))
    IN  earlier_of(stop, set) - later_of(start, rise)

\* bounded_daylight_duration(start, end, daylight_hours): seconds
bounded_daylight_duration(start, stop, light_hours) ==
    LET rise == midnight(date(start)) + as_u32(noon_minus(half(light_hours)))
        set == midnight(date(start)) + as_u32(noon_plus(half(light_hours)))
    IN  IF stop < rise \/ start > set
        THEN 0
        ELSE earlier_of(stop, set) - later_of(start, rise)

\* bounded_daylight_hours: dur.num_seconds() / 3600, kept in seconds
bounded_daylight_hours(start, stop, light_hours) ==
    bounded_daylight_duration(start, stop, light_hours)

\* Duration::num_minutes: whole minutes, truncated towards zero
num_minutes(dur) == IF dur >= 0 THEN dur \div 60 ELSE 0 - ((0 - dur) \div 60)

\* load * minutes / 60, in milliwatt-hours
load_energy(s) == (s.load * num_minutes(s.step_size)) \div 60

\* net_energy with the solar power applied to the whole step instead of to
\* its daylight part
net_energy_whole_step(s) ==
    (solar_power(s) * s.step_size) \div 3600 - load_energy(s)

\* net_energy(state): milliwatt-hours
net_energy(s) ==
    LET actual_solar_energy ==
            (solar_power(s)
             * bounded_daylight_hours(s.now, s.now + s.step_size,
                   daylight_hours(s.latitude, ordinal0(s.now)))) \div 3600
    IN  actual_solar_energy - load_energy(s)

-----------------------------------------------------------------------------
(* Simulation state machine *)

\* step without the upper clamp
step_no_upper_clamp(s) ==
    LET delta == net_energy(s)
        unbounded_charge == s.current_stored_energy + delta
    IN  [s EXCEPT
          !.charge_history = Append(@, s.current_stored_energy),
          !.current_stored_energy =
              IF unbounded_charge < 0 THEN 0 ELSE unbounded_charge,
          !.now = s.now + s.step_size,
          !.history_dates = Append(@, s.now),
          !.solar_history = Append(@, solar_power(s)),
          !.daylight_history =
              Append(@, daylight_hours(s.latitude, ordinal0(s.now)))]

\* new_state.current_stored_energy = if unbounded_charge < 0. { 0. } else if
\* unbounded_charge > state.battery_capacity { state.battery_capacity } else
\* { state.current_stored_energy + delta }
new_stored_energy(s) ==
    LET delta == net_energy(s)
        unbounded_charge == s.current_stored_energy + delta
    IN  IF unbounded_charge < 0 THEN 0
        ELSE IF unbounded_charge > s.battery_capacity
             THEN s.battery_capacity
             ELSE s.current_stored_energy + delta

\* step without the push to solar_history
step_skips_solar_history(s) ==
    [s EXCEPT
      !.charge_history = Append(@, s.current_stored_energy),
      !.current_stored_energy = new_stored_energy(s),
      !.now = s.now + s.step_size,
      !.history_dates = Append(@, s.now),
      !.daylight_history =
          Append(@, daylight_hours(s.latitude, ordinal0(s.now)))]

\* step advancing the clock by the whole minutes of step_size
step_whole_minutes(s) ==
    [s EXCEPT
      !.charge_history = Append(@, s.current_stored_energy),
      !.current_stored_energy = new_stored_energy(s),
      !.now = s.now + 60 * num_minutes(s.step_size),
      !.history_dates = Append(@, s.now),
      !.solar_history = Append(@, solar_power(s)),
      !.daylight_history =
          Append(@, daylight_hours(s.latitude, ordinal0(s.now)))]

\* step pushing the new stored energy instead of the old
step_pushes_new_charge(s) ==
    [s EXCEPT
      !.charge_history = Append(@, new_stored_energy(s)),
      !.current_stored_energy = new_stored_energy(s),
      !.now = s.now + s.step_size,
      !.history_dates = Append(@, s.now),
      !.solar_history = Append(@, solar_power(s)),
      !.daylight_history =
          Append(@, daylight_hours(s.latitude, ordinal0(s.now)))]

step(s) ==
    [s EXCEPT
      !.charge_history = Append(@, s.current_stored_energy),
      !.current_stored_energy = new_stored_energy(s),
      !.now = s.now + s.step_size,
      !.history_dates = Append(@, s.now),
      !.solar_history = Append(@, solar_power(s)),
      !.daylight_history =
          Append(@, daylight_hours(s.latitude, ordinal0(s.now)))]

-----------------------------------------------------------------------------
(* Callers: the unit tests and the GUI build a SimState field by field *)

\* the record with the given histories
Histories(charge, dates, solar, daylight) ==
    [charge_history |-> charge, history_dates |-> dates,
     solar_history |-> solar, daylight_history |-> daylight]

NoHistory == Histories(<<>>, <<>>, <<>>, <<>>)
OldHistory == Histories(<<70000>>, <<0>>, <<5000>>, <<NaN>>)

\* the fields a unit test sets besides the parameters, before it calls step
TestLeftovers ==
    { [current_stored_energy |-> e, now |-> t] @@ h :
        e \in {0, 50000, 150000}, t \in {0, 21600, Noon, 61200},
        h \in {NoHistory, OldHistory} }

\* what the state given to run_simulation holds besides the parameters
RunLeftovers ==
    { [current_stored_energy |-> 0, now |-> 0] @@ NoHistory,
      [current_stored_energy |-> 150000, now |-> 2700] @@ OldHistory }

\* a unit test starts from SimState::new() and leaves the days alone
TestParameters ==
    [load : Loads, battery_capacity : Capacities,
     solar_nominal_output : SolarOutputs, latitude : Latitudes,
     step_size : StepSizes, start_day : {1}, end_day : {364}]

RunParameters ==
    [load : {0, 2000}, battery_capacity : {0, 30000},
     solar_nominal_output : SolarOutputs, latitude : Latitudes,
     step_size : {2700, 18030}, start_day : Days, end_day : Days]

Built ==
    (TestParameters \X TestLeftovers) \cup (RunParameters \X RunLeftovers)

ParametersOf(s) ==
    [load |-> s.load, battery_capacity |-> s.battery_capacity,
     solar_nominal_output |-> s.solar_nominal_output, latitude |-> s.latitude,
     step_size |-> s.step_size, start_day |-> s.start_day, end_day |-> s.end_day]

\* the record with the fields of both
SimState(p, l) == p @@ l

\* SimState::default(): 1000 Wh, 100 W of solar, a load of 25 W, latitude 36
SimState_default ==
    [SimState_new EXCEPT !.battery_capacity = 1000000,
                         !.solar_nominal_output = 100000,
                         !.load = 25000,
                         !.latitude = 36]

DateLineChart_new(xs, ys, ys_secondary, labels) ==
    [xs |-> xs, ys |-> ys, ys_secondary |-> ys_secondary, labels |-> labels]

SecondAxis == {"None", "SolarPower", "SunlightHours"}

\* #[derive(Default)] on AppState: the default simulation state, an empty
\* chart, the daylight hours on the second axis
AppState_default ==
    [sim_state |-> SimState_default,
     plot |-> DateLineChart_new(<<>>, <<>>, <<>>, <<>>),
     second_axis |-> "SunlightHours"]

TypeOK ==
    /\ pc \in {"new", "idle", "loop", "stepped", "panicked", "measured",
               "sampled", "gui"}
    /\ calls \in 0..MaxCalls
    /\ DOMAIN sim_state = DOMAIN SimState_new
    /\ DOMAIN state = DOMAIN SimState_new
    /\ DOMAIN result = DOMAIN SimState_new
    /\ DOMAIN net = DOMAIN SimState_new

Init ==
    /\ sim_state = SimState_new
    /\ state = SimState_new
    /\ end = 0
    /\ pc = "new"
    /\ result = SimState_new
    /\ net = SimState_new
    /\ calls = 0
    /\ probe = [call |-> "none"]
    /\ app = AppState_default
    /\ event = [type |-> "none"]

\* SimState::new() followed by the caller's assignments to its fields
Build(p, l) ==
    /\ pc = "new"
    /\ sim_state' = SimState(p, l)
    /\ pc' = "idle"
    /\ UNCHANGED <<state, end, result, net, calls, probe, app, event>>

\* between two runs a caller keeps the parameters and overwrites the rest
Overwrite(l) ==
    /\ pc = "idle"
    /\ calls >= 1
    /\ calls < MaxCalls
    /\ sim_state' = SimState(ParametersOf(sim_state), l)
    /\ UNCHANGED <<state, end, pc, result, net, calls, probe, app, event>>

\* let net = step(&state);
CallStep ==
    /\ pc = "idle"
    /\ calls = 0
    /\ net' = step(sim_state)
    /\ pc' = "stepped"
    /\ UNCHANGED <<sim_state, state, end, result, calls, probe, app, event>>

\* self.sim_state = run_simulation(&self.sim_state): the returned state
\* replaces the caller's
Adopt ==
    /\ pc = "idle"
    /\ calls >= 1
    /\ calls < MaxCalls
    /\ sim_state' = result
    /\ UNCHANGED <<state, end, pc, result, net, calls, probe, app, event>>

-----------------------------------------------------------------------------
(* Direct calls of the interval integrator and of the production curve *)

\* lengths of daylight handed to bounded_daylight_hours: none, twelve hours,
\* 2023-01-01 at latitude 36, twenty hours, NaN
LightHours == {0, 43200000, Daylight36[0], 72000000, NaN}

\* starts on 2023-01-01: 00:00, 05:15, the seconds around the sunrise and the
\* sunset of latitude 36, 12:00, 18:00, 23:00
Starts == {0, 18900, 26166, 26167, Noon, 60233, 60234, 64800, 82800}

\* lengths of the interval: empty, a quarter, one hour, twelve hours
Lengths == {0, 900, 3600, 43200}

\* bounded_daylight_hours(start, end, daylight_hours), with the duration it
\* is computed from
CallBoundedDaylight(start, stop, light_hours) ==
    /\ pc = "new"
    /\ probe' = [call |-> "bounded_daylight_hours",
                 start |-> start, stop |-> stop, light_hours |-> light_hours,
                 duration |-> bounded_daylight_duration(start, stop, light_hours),
                 hours |-> bounded_daylight_hours(start, stop, light_hours)]
    /\ pc' = "measured"
    /\ UNCHANGED <<sim_state, state, end, result, net, calls, app, event>>

\* times of day around the sunrise, the noon and the sunset of day d
TimesAround(d, lat) ==
    {0, sunrise(d, lat) - 1, sunrise(d, lat), sunrise(d, lat) + 1,
     sunrise(d, lat) + 3600, Noon, sunset(d, lat) - 3600,
     sunset(d, lat) - 1, sunset(d, lat), sunset(d, lat) + 1,
     SecondsPerDay - 1}

\* solar_production_curve(now, lat)
CallCurve(now, lat) ==
    /\ pc = "new"
    /\ probe' = [call |-> "solar_production_curve",
                 now |-> now, latitude |-> lat,
                 coefficient |-> solar_production_curve(now, lat)]
    /\ pc' = "sampled"
    /\ UNCHANGED <<sim_state, state, end, result, net, calls, app, event>>

-----------------------------------------------------------------------------
(* Run driver *)

\* the reset without the line that zeroes the stored energy
fresh_keeps_energy(s) ==
    [s EXCEPT !.now = midnight(day_or_first(s.start_day) - 1),
              !.charge_history = <<>>,
              !.history_dates = <<>>,
              !.solar_history = <<>>,
              !.daylight_history = <<>>]

\* the reset without the line that empties charge_history
fresh_keeps_charge_history(s) ==
    [s EXCEPT !.now = midnight(day_or_first(s.start_day) - 1),
              !.current_stored_energy = 0,
              !.history_dates = <<>>,
              !.solar_history = <<>>,
              !.daylight_history = <<>>]

\* the reset writing the day it starts from back into start_day
fresh_rewrites_start_day(s) ==
    [s EXCEPT !.now = midnight(day_or_first(s.start_day) - 1),
              !.start_day = day_or_first(s.start_day),
              !.current_stored_energy = 0,
              !.charge_history = <<>>,
              !.history_dates = <<>>,
              !.solar_history = <<>>,
              !.daylight_history = <<>>]

\* the clone of the input with the clock at 00:00 of the start day, no stored
\* energy and empty histories
fresh(s) ==
    [s EXCEPT !.now = midnight(day_or_first(s.start_day) - 1),
              !.current_stored_energy = 0,
              !.charge_history = <<>>,
              !.history_dates = <<>>,
              !.solar_history = <<>>,
              !.daylight_history = <<>>]

\* the end boundary one day late, at the end of the end day
end_boundary_after_end_day(s) == midnight(day_or_first(s.end_day))

\* midnight at the start of the end day
end_boundary(s) == midnight(day_or_first(s.end_day) - 1)

run_simulation_enter ==
    /\ pc = "idle"
    /\ calls < MaxCalls
    /\ day_or_first(sim_state.end_day) - day_or_first(sim_state.start_day) <= MaxSpan
    /\ with_ordinal_ok(day_or_first(sim_state.start_day))
    /\ with_ordinal_ok(day_or_first(sim_state.end_day))
    /\ state' = fresh(sim_state)
    /\ end' = end_boundary(sim_state)
    /\ pc' = "loop"
    /\ UNCHANGED <<sim_state, result, net, calls, probe, app, event>>

\* with_ordinal(..).unwrap() on a day that 2023 does not have
run_simulation_panic ==
    /\ pc = "idle"
    /\ calls < MaxCalls
    /\ \/ ~with_ordinal_ok(day_or_first(sim_state.start_day))
       \/ ~with_ordinal_ok(day_or_first(sim_state.end_day))
    /\ pc' = "panicked"
    /\ UNCHANGED <<sim_state, state, end, result, net, calls, probe, app, event>>

\* the loop condition with <= for <
loop_condition_inclusive(s, e) == s.now <= e

\* while state.now < end
loop_condition(s, e) == s.now < e

\* while state.now < end { state = step(&state); }
run_simulation_loop ==
    /\ pc = "loop"
    /\ loop_condition(state, end)
    /\ state' = step(state)
    /\ UNCHANGED <<sim_state, end, pc, result, net, calls, probe, app, event>>

\* state.clone()
run_simulation_return ==
    /\ pc = "loop"
    /\ ~loop_condition(state, end)
    /\ result' = state
    /\ pc' = "idle"
    /\ calls' = calls + 1
    /\ UNCHANGED <<sim_state, state, end, net, probe, app, event>>

-----------------------------------------------------------------------------
(* Application state and its update handler *)

\* run_simulation(&state) as one call, for a state whose days 2023 has
RECURSIVE run_loop(_, _)
run_loop(s, e) == IF loop_condition(s, e) THEN run_loop(step(s), e) ELSE s

run_simulation(s) == run_loop(fresh(s), end_boundary(s))

\* the messages the widgets of view send
Message ==
    [type : {"BatteryCapacityChanged"}, value : {30000}]
    \cup [type : {"SolarCapacityChanged"}, value : {10000}]
    \cup [type : {"LoadChanged"}, value : {2000}]
    \cup [type : {"LatitudeChanged"}, value : {0}]
    \cup [type : {"StartDateChanged"}, value : {0, 2}]
    \cup [type : {"EndDateChanged"}, value : {1, 2}]
    \cup [type : {"ChartEvent"}, value : {0}]
    \cup [type : {"AxisChoiceChanged"}, value : SecondAxis]

\* match event { .. }: the assignment of the message's value to its field
assigned(a, m) ==
    CASE m.type = "BatteryCapacityChanged" ->
           [a EXCEPT !.sim_state.battery_capacity = m.value]
      [] m.type = "SolarCapacityChanged" ->
           [a EXCEPT !.sim_state.solar_nominal_output = m.value]
      [] m.type = "LoadChanged" -> [a EXCEPT !.sim_state.load = m.value]
      [] m.type = "LatitudeChanged" -> [a EXCEPT !.sim_state.latitude = m.value]
      [] m.type = "StartDateChanged" -> [a EXCEPT !.sim_state.start_day = m.value]
      [] m.type = "EndDateChanged" -> [a EXCEPT !.sim_state.end_day = m.value]
      [] m.type = "ChartEvent" -> a
      [] OTHER -> [a EXCEPT !.second_axis = m.value]

\* the chart of a simulation state with the chosen second axis
plot_of(s, second_axis) ==
    LET labels ==
            CASE second_axis = "None" -> <<"State of Charge">>
              [] second_axis = "SolarPower" ->
                   <<"State of Charge", "Solar Output">>
              [] OTHER -> <<"State of Charge", "Daylight Hours">>
        secondary_data ==
            CASE second_axis = "None" -> <<>>
              [] second_axis = "SolarPower" -> <<s.solar_history>>
              [] OTHER -> <<s.daylight_history>>
    IN  DateLineChart_new(s.history_dates, <<s.charge_history>>,
                          secondary_data, labels)

\* application(..).run(): the window opens on the default state
run ==
    /\ pc = "new"
    /\ pc' = "gui"
    /\ UNCHANGED <<sim_state, state, end, result, net, calls, probe, app, event>>

\* update drawing the chart before the new run instead of after it
update_plots_before_run(m) ==
    LET changed == assigned(app, m)
        ran == run_simulation(changed.sim_state)
    IN  /\ pc = "gui"
        /\ day_or_first(changed.sim_state.end_day)
             - day_or_first(changed.sim_state.start_day) <= MaxSpan
        /\ with_ordinal_ok(day_or_first(changed.sim_state.start_day))
        /\ with_ordinal_ok(day_or_first(changed.sim_state.end_day))
        /\ app' = [changed EXCEPT
                     !.plot = plot_of(app.sim_state, changed.second_axis),
                     !.sim_state = ran]
        /\ event' = m
        /\ UNCHANGED <<sim_state, state, end, pc, result, net, calls, probe>>

\* AppState::update(&mut self, event)
update(m) ==
    LET changed == assigned(app, m)
        ran == run_simulation(changed.sim_state)
    IN  /\ pc = "gui"
        /\ day_or_first(changed.sim_state.end_day)
             - day_or_first(changed.sim_state.start_day) <= MaxSpan
        /\ with_ordinal_ok(day_or_first(changed.sim_state.start_day))
        /\ with_ordinal_ok(day_or_first(changed.sim_state.end_day))
        /\ app' = [changed EXCEPT
                     !.sim_state = ran,
                     !.plot = plot_of(ran, changed.second_axis)]
        /\ event' = m
        /\ UNCHANGED <<sim_state, state, end, pc, result, net, calls, probe>>

Next ==
    \/ \E b \in Built : Build(b[1], b[2])
    \/ \E l \in RunLeftovers : Overwrite(l)
    \/ CallStep
    \/ \E start \in Starts, len \in Lengths, light_hours \in LightHours :
          CallBoundedDaylight(start, start + len, light_hours)
    \/ \E d \in 0..1, lat \in Latitudes : \E t \in TimesAround(d, lat) :
          CallCurve(midnight(d) + t, lat)
    \/ Adopt
    \/ run_simulation_enter
    \/ run_simulation_panic
    \/ run_simulation_loop
    \/ run_simulation_return
    \/ run
    \/ \E m \in Message : update(m)

Spec == Init /\ [][Next]_vars

FairSpec == Spec /\ WF_vars(run_simulation_loop) /\ WF_vars(run_simulation_return)

-----------------------------------------------------------------------------
(* Properties *)

InRange(s) ==
    /\ 0 <= s.current_stored_energy
    /\ s.current_stored_energy <= s.battery_capacity

\* C1: in every state run_simulation goes through or returns, and after a
\* single call of step on any state with battery_capacity >= 0 (also one that
\* holds more energy than the capacity), 0 <= current_stored_energy <=
\* battery_capacity.
C1_StoredEnergyWithinCapacity ==
    /\ pc = "loop" => InRange(state)
    /\ calls >= 1 => InRange(result)
    /\ pc = "stepped" /\ sim_state.battery_capacity >= 0 => InRange(net)

\* a step on a state holding more than the capacity came back at the capacity
C1_Witness ==
    /\ pc = "stepped"
    /\ sim_state.current_stored_energy > sim_state.battery_capacity
    /\ sim_state.solar_nominal_output > 0
    /\ net.current_stored_energy = net.battery_capacity
    /\ net.battery_capacity > 0

Max(a, b) == IF a >= b THEN a ELSE b
Min(a, b) == IF a <= b THEN a ELSE b
Clamp(x, lo, hi) == Max(lo, Min(x, hi))

\* solar_power * bounded_daylight_hours(step start, step end)
\*   - load * step_minutes / 60
Delta(s) ==
    (solar_power(s)
     * bounded_daylight_hours(s.now, s.now + s.step_size,
           daylight_hours(s.latitude, ordinal0(s.now)))) \div 3600
    - (s.load * (s.step_size \div 60)) \div 60

StepClamps(before, after) ==
    /\ after.current_stored_energy =
           Clamp(before.current_stored_energy + Delta(before),
                 0, before.battery_capacity)
    /\ before.solar_nominal_output = 0
         /\ before.current_stored_energy <= before.battery_capacity
       => after.current_stored_energy =
              Max(0, before.current_stored_energy
                       - (before.load * (before.step_size \div 60)) \div 60)

\* C2: every step, in a run or called alone, sets the stored energy to
\* clamp(stored + delta, 0, battery_capacity) with delta = solar_power *
\* bounded_daylight_hours - load * step_minutes / 60; with no solar output
\* and a state within its capacity that is max(0, stored - load *
\* step_minutes / 60).
C2_StepClampsNetEnergy ==
    [][/\ run_simulation_loop => StepClamps(state, state')
       /\ CallStep => StepClamps(sim_state, net')]_vars

\* stored 50 Wh, load 20 W, no solar, a 2-hour step from noon: 10 Wh
C2_Witness ==
    /\ pc = "stepped"
    /\ sim_state.current_stored_energy = 50000
    /\ sim_state.load = 20000
    /\ sim_state.solar_nominal_output = 0
    /\ sim_state.battery_capacity = 100000
    /\ sim_state.step_size = 7200
    /\ sim_state.now = Noon
    /\ net.current_stored_energy = 10000

\* the state of test_step_2
IsTestStep2(s) ==
    /\ s.battery_capacity = 100000
    /\ s.current_stored_energy = 50000
    /\ s.solar_nominal_output = 10000
    /\ s.load = 20000
    /\ s.latitude = 0
    /\ s.now = 0
    /\ s.step_size = 2700

\* C3: one step from {battery_capacity 100, current_stored_energy 50,
\* solar_nominal_output 10, load 20, latitude 0, 2023-01-01 00:00, 45-minute
\* step} yields current_stored_energy = 40.
C3_TestStep2Yields40 ==
    pc = "stepped" /\ IsTestStep2(sim_state) => net.current_stored_energy = 40000

SameLength(s) ==
    /\ Len(s.solar_history) = Len(s.charge_history)
    /\ Len(s.daylight_history) = Len(s.charge_history)
    /\ Len(s.history_dates) = Len(s.charge_history)

OneMoreEach(before, after) ==
    /\ Len(after.charge_history) = Len(before.charge_history) + 1
    /\ Len(after.solar_history) = Len(before.solar_history) + 1
    /\ Len(after.daylight_history) = Len(before.daylight_history) + 1
    /\ Len(after.history_dates) = Len(before.history_dates) + 1

\* the number of steps since the clock was at 00:00 of the start day
StepsApplied(s) ==
    (s.now - midnight(day_or_first(s.start_day) - 1)) \div s.step_size

\* C4: at every point of a run, before the first step and after the last
\* included, the four histories have the same length, the number of steps
\* applied since the run started; every step appends exactly one element to
\* each of the four.
C4_HistoriesGrowTogether ==
    /\ [](pc = "loop" => SameLength(state)
                         /\ Len(state.charge_history) = StepsApplied(state))
    /\ [](calls >= 1 => SameLength(result)
                        /\ Len(result.charge_history) = StepsApplied(result))
    /\ [][/\ run_simulation_enter => Len(state'.charge_history) = 0
          /\ run_simulation_loop => OneMoreEach(state, state')
          /\ CallStep => OneMoreEach(sim_state, net')]_vars

\* three steps into a run whose input carried old history entries
C4_Witness ==
    /\ pc = "loop"
    /\ Len(state.charge_history) = 3
    /\ Len(state.solar_history) = 3
    /\ Len(sim_state.charge_history) = 1

Spaced(dates, size) ==
    \A i \in 1..(Len(dates) - 1) :
        dates[i + 1] > dates[i] /\ dates[i + 1] - dates[i] = size

\* C5: in what run_simulation returns (step_size > 0), history_dates is
\* strictly increasing and consecutive entries differ by exactly step_size.
C5_DatesSpacedByStepSize ==
    /\ pc = "loop" => Spaced(state.history_dates, state.step_size)
    /\ calls >= 1 => Spaced(result.history_dates, result.step_size)

\* a finished run of several steps whose step is not a whole number of minutes
C5_Witness ==
    /\ pc = "idle"
    /\ calls >= 1
    /\ Len(result.history_dates) >= 3
    /\ result.step_size = 18030

Last(seq) == seq[Len(seq)]

\* the state as it was when sample i was taken
At(s, i) ==
    [s EXCEPT !.now = s.history_dates[i],
              !.current_stored_energy = s.charge_history[i]]

AppendsOldValues(before, after) ==
    /\ after.charge_history =
           Append(before.charge_history, before.current_stored_energy)
    /\ after.history_dates = Append(before.history_dates, before.now)
    /\ after.now = before.now + before.step_size

Chained(s) ==
    /\ \A i \in 1..(Len(s.charge_history) - 1) :
           /\ s.charge_history[i + 1] =
                  Clamp(s.charge_history[i] + Delta(At(s, i)),
                        0, s.battery_capacity)
           /\ s.history_dates[i + 1] = s.history_dates[i] + s.step_size
    /\ Len(s.charge_history) >= 1 =>
           /\ s.current_stored_energy =
                  Clamp(Last(s.charge_history)
                          + Delta(At(s, Len(s.charge_history))),
                        0, s.battery_capacity)
           /\ s.now = Last(s.history_dates) + s.step_size

\* C6: a step appends the stored energy and the clock it started from, then
\* advances the clock by step_size; so in a finished run every sample is the
\* clamped result of the step taken from the sample before it, history_dates
\* holds the start of each step, and the result of the last step is held by
\* current_stored_energy and the clock alone: the last sample is what that
\* step started from.
C6_HistoryHoldsPreStepValues ==
    /\ [][/\ run_simulation_loop => AppendsOldValues(state, state')
          /\ CallStep => AppendsOldValues(sim_state, net')]_vars
    /\ [](calls >= 1 => Chained(result))

\* a finished run whose final stored energy is in none of its samples
C6_Witness ==
    /\ pc = "idle"
    /\ calls >= 1
    /\ Len(result.charge_history) >= 2
    /\ \A i \in 1..Len(result.charge_history) :
           result.charge_history[i] # result.current_stored_energy

\* C7: with step_size > 0 and days that 2023 has, run_simulation terminates:
\* every step moves the clock forward, no step is taken once the clock has
\* reached the end boundary (00:00 of end_day), and when at least one step
\* was taken the returned clock is at or after the boundary and less than
\* one step_size after it.
C7_RunTerminates ==
    /\ [][run_simulation_loop => state'.now > state.now /\ state.now < end]_vars
    /\ [](pc = "loop" => end = end_boundary(state))
    /\ [](calls >= 1 /\ Len(result.history_dates) >= 1 =>
            /\ end_boundary(result) <= result.now
            /\ result.now < end_boundary(result) + result.step_size)
    /\ (pc = "loop") ~> (pc = "idle")

\* a finished run that overshot the end boundary
C7_Witness ==
    /\ pc = "idle"
    /\ calls >= 1
    /\ Len(result.history_dates) >= 2
    /\ result.now > end_boundary(result)

Empty(s) ==
    /\ s.charge_history = <<>>
    /\ s.history_dates = <<>>
    /\ s.solar_history = <<>>
    /\ s.daylight_history = <<>>

StartedFresh(s) ==
    IF Len(s.history_dates) = 0
    THEN /\ Empty(s)
         /\ s.current_stored_energy = 0
         /\ s.now = midnight(day_or_first(s.start_day) - 1)
    ELSE /\ s.history_dates[1] = midnight(day_or_first(s.start_day) - 1)
         /\ s.charge_history[1] = 0

\* C8: whatever the input state holds, run_simulation starts with the clock
\* at 00:00 of start_day, no stored energy and four empty histories; once a
\* step was taken history_dates[0] is that midnight and charge_history[0]
\* is 0.
C8_RunStartsFresh ==
    /\ pc = "loop" => StartedFresh(state)
    /\ calls >= 1 => StartedFresh(result)

\* a run under way on an input that held energy, another clock and old samples
C8_Witness ==
    /\ pc = "loop"
    /\ Len(state.charge_history) >= 1
    /\ state.charge_history[1] = 0
    /\ sim_state.current_stored_energy = 150000
    /\ sim_state.charge_history # <<>>
    /\ sim_state.now # state.history_dates[1]

\* C9: the state run_simulation returns is decided by the seven parameters:
\* a call returns what the call before it returned when the two inputs have
\* the same parameters, whether the second input is the first input again,
\* the same parameters with another clock, stored energy and histories, or
\* the state the first call returned.
C9_RunDependsOnParametersOnly ==
    [][run_simulation_return /\ calls >= 1
         /\ ParametersOf(sim_state) = ParametersOf(result)
       => result' = result]_vars

\* the second call was given the state the first returned, samples included
C9_Witness ==
    /\ pc = "idle"
    /\ calls = 2
    /\ sim_state = result
    /\ Len(result.charge_history) >= 2
    /\ result.current_stored_energy > 0

\* C10: a start_day of 0 runs from day 1 and an end_day of 0 ends at day 1;
\* neither makes run_simulation panic (only a day 2023 does not have does),
\* and with end_day = 0 and start_day > 1 the run takes no step: it returns
\* empty histories and the clock at 00:00 of start_day.
C10_DayZeroIsDayOne ==
    /\ pc = "loop" /\ state.start_day = 0 /\ Len(state.history_dates) = 0
         => state.now = midnight(0)
    /\ pc = "loop" /\ state.end_day = 0 => end = midnight(0)
    /\ pc = "panicked"
         => sim_state.start_day > DaysIn2023 \/ sim_state.end_day > DaysIn2023
    /\ calls >= 1 /\ result.end_day = 0 /\ result.start_day > 1
         => /\ Empty(result)
            /\ result.now = midnight(result.start_day - 1)

\* a run with end_day = 0 and start_day = 3 has returned
C10_Witness ==
    /\ pc = "idle"
    /\ calls >= 1
    /\ result.end_day = 0
    /\ result.start_day = 3
    /\ result.now = midnight(2)
    /\ sim_state.charge_history # <<>>

\* start_day and end_day are both in lo..hi and end_day is not before start_day
DaysWithin(s, lo, hi) ==
    /\ s.start_day \in lo..hi
    /\ s.end_day \in lo..hi
    /\ s.end_day >= s.start_day

\* C11 as stated: for start_day and end_day in 1..366 with end_day >=
\* start_day, run_simulation does not abort.
C11_NoAbortUpTo366 ==
    pc = "panicked" => ~DaysWithin(sim_state, 1, 366)

\* C11, amended: for start_day and end_day in 1..365 with end_day >=
\* start_day, run_simulation does not abort, reaches the end of its loop and
\* returns the finished state; a start_day or end_day of 366, a day 2023 does
\* not have, makes it panic before the first step.
C11_DaysOf2023Complete ==
    /\ [](pc = "panicked" => ~DaysWithin(sim_state, 1, DaysIn2023))
    /\ [](pc = "loop" =>
            sim_state.start_day <= DaysIn2023 /\ sim_state.end_day <= DaysIn2023)
    /\ (pc = "loop" /\ DaysWithin(state, 1, DaysIn2023))
         ~> (pc = "idle" /\ calls >= 1 /\ result = state)

\* the run over the last day that can be simulated, 364 to 365, has returned
C11_Witness ==
    /\ pc = "idle"
    /\ calls >= 1
    /\ result.start_day = 364
    /\ result.end_day = DaysIn2023
    /\ Len(result.history_dates) >= 1

\* sunrise and sunset of the day a whole-second instant lies in, for a length
\* of daylight in milliseconds: 12:00 -+ half the daylight, in whole seconds
WindowRise(t, light) == (t - (t % SecondsPerDay)) + (Noon * 1000 - light \div 2) \div 1000
WindowSet(t, light) == (t - (t % SecondsPerDay)) + (Noon * 1000 + light \div 2) \div 1000

\* the seconds of [start, stop) that lie in the daylight window
Overlap(start, stop, light) ==
    Cardinality({t \in start..(stop - 1) :
                    WindowRise(start, light) <= t /\ t < WindowSet(start, light)})

\* C12: bounded_daylight_duration(start, end, daylightHours) is zero when end <
\* sunrise or start > sunset of start's date and min(end, sunset) - max(start,
\* sunrise) otherwise, which is the length of the overlap of [start, end] with
\* the daylight window; bounded_daylight_hours is that value in hours; with
\* 12 h of daylight 12:00-13:00 gives one hour and 05:15-06:15 a quarter.
C12_BoundedDaylightIsOverlap ==
    (pc = "measured" /\ probe.light_hours # NaN) =>
        LET rise == WindowRise(probe.start, probe.light_hours)
            set == WindowSet(probe.start, probe.light_hours)
        IN  /\ probe.duration =
                  IF probe.stop < rise \/ probe.start > set
                  THEN 0
                  ELSE Min(probe.stop, set) - Max(probe.start, rise)
            /\ probe.duration = Overlap(probe.start, probe.stop, probe.light_hours)
            /\ probe.hours = probe.duration
            /\ (probe.light_hours = 43200000 /\ probe.start = Noon
                  /\ probe.stop = Noon + 3600) => probe.hours = 3600
            /\ (probe.light_hours = 43200000 /\ probe.start = 18900
                  /\ probe.stop = 18900 + 3600) => probe.hours = 900

\* 05:15-06:15 measured against twelve hours of daylight: a quarter of an hour
C12_Witness ==
    /\ pc = "measured"
    /\ probe.light_hours = 43200000
    /\ probe.start = 18900
    /\ probe.stop = 22500
    /\ probe.hours = 900

\* C13: solar_production_curve(now, lat) is 0 at every time of day at or
\* before that day's sunrise and at or after that day's sunset, and between 0
\* and 1 at every time strictly inside the daylight window.
C13_CurveZeroOutsideDaylight ==
    pc = "sampled" =>
        LET day == probe.now \div SecondsPerDay
            t == probe.now % SecondsPerDay
            rise == sunrise(day, probe.latitude)
            set == sunset(day, probe.latitude)
        IN  /\ (t <= rise \/ t >= set) => probe.coefficient = 0
            /\ (rise < t /\ t < set) =>
                  probe.coefficient >= 0 /\ probe.coefficient <= 1000

\* the curve sampled at the very second of the sunset of a day that has a
\* sunrise and a sunset
C13_Witness ==
    /\ pc = "sampled"
    /\ sunrise(probe.now \div SecondsPerDay, probe.latitude) < Noon
    /\ probe.now % SecondsPerDay
         = sunset(probe.now \div SecondsPerDay, probe.latitude)
    /\ probe.coefficient = 0

\* the day of s.now has no length of daylight
PolarDay(s) == daylight_hours(s.latitude, ordinal0(s.now)) = NaN

\* the stored energy a step leaves when only the load acts on it
LoadAlone(s) ==
    Clamp(s.current_stored_energy - (s.load * (s.step_size \div 60)) \div 60,
          0, s.battery_capacity)

\* C14 as stated: when daylight_hours is NaN for the step's day the stored
\* energy after the step is not the value obtained from the load alone.
C14_NaNPoisonsEnergy ==
    (pc = "stepped" /\ PolarDay(sim_state)) =>
        net.current_stored_energy # LoadAlone(sim_state)

NaNAbsorbed(before, after) ==
    PolarDay(before) =>
        /\ after.current_stored_energy = LoadAlone(before)
        /\ Last(after.daylight_history) = NaN

\* C14, amended: when daylight_hours is NaN for the step's day the step does
\* not abort and its energy is not poisoned: the production curve is 0 at
\* every time of that day, the daylight part of any interval is empty, and
\* the stored energy after the step is exactly the value obtained from the
\* load alone; only daylight_history records the NaN.
C14_NaNIsAbsorbed ==
    /\ []((pc = "sampled" /\ daylight_hours(probe.latitude, ordinal0(probe.now)) = NaN)
            => probe.coefficient = 0)
    /\ []((pc = "measured" /\ probe.light_hours = NaN) => probe.duration = 0)
    /\ [](pc = "stepped" => NaNAbsorbed(sim_state, net))
    /\ [][run_simulation_loop => NaNAbsorbed(state, state')]_vars

\* a step at latitude 80 with solar capacity, from 50 Wh under a 20 W load
\* for 45 minutes: 35 Wh, and NaN in daylight_history
C14_Witness ==
    /\ pc = "stepped"
    /\ PolarDay(sim_state)
    /\ sim_state.solar_nominal_output > 0
    /\ sim_state.current_stored_energy = 50000
    /\ sim_state.load = 20000
    /\ sim_state.step_size = 2700
    /\ sim_state.battery_capacity = 100000
    /\ net.current_stored_energy = 35000
    /\ Last(net.daylight_history) = NaN

\* ceil(a / b) for a >= 0 and b > 0
CeilDiv(a, b) == (a + b - 1) \div b

\* 00:00 of the day with ordinal n, 1 being 2023-01-01
MidnightOfDay(n) == (n - 1) * SecondsPerDay

\* the histories of s hold the samples of a run from day first to day last
SamplesOf(s, first, last) ==
    LET n == IF last >= first
             THEN CeilDiv((last - first) * SecondsPerDay, s.step_size)
             ELSE 0
    IN  /\ Len(s.charge_history) = n
        /\ Len(s.history_dates) = n
        /\ Len(s.solar_history) = n
        /\ Len(s.daylight_history) = n
        /\ \A i \in 1..Len(s.history_dates) :
              /\ MidnightOfDay(first) <= s.history_dates[i]
              /\ s.history_dates[i] < MidnightOfDay(last)

\* C15 as stated: each history returned by run_simulation has exactly
\* ceil((end_day - start_day) * 24h / step_size) samples when end_day >=
\* start_day and none when end_day < start_day, and every recorded timestamp
\* lies in [midnight(start_day), midnight(end_day)).
C15_SampleCountOfRawDays ==
    (pc = "idle" /\ calls >= 1) =>
        SamplesOf(result, result.start_day, result.end_day)

\* C15, amended: with a day of 0 counted as day 1, each history returned by
\* run_simulation has exactly ceil((end_day - start_day) * 24h / step_size)
\* samples when end_day >= start_day and none when end_day < start_day, and
\* every recorded timestamp lies in [midnight(start_day), midnight(end_day)).
C15_SampleCount ==
    (pc = "idle" /\ calls >= 1) =>
        SamplesOf(result, Max(result.start_day, 1), Max(result.end_day, 1))

\* two days in steps of 5 hours 30 seconds: ten samples, the last one less
\* than a step before the end
C15_Witness ==
    /\ pc = "idle"
    /\ calls >= 1
    /\ result.start_day = 1
    /\ result.end_day = 3
    /\ result.step_size = 18030
    /\ Len(result.history_dates) = 10
    /\ Last(result.history_dates) + result.step_size > MidnightOfDay(3)

\* a is the beginning of b
Prefix(a, b) == Len(a) <= Len(b) /\ SubSeq(b, 1, Len(a)) = a

\* load, battery_capacity, solar_nominal_output, latitude, step_size,
\* start_day and end_day are the same in both
SameParameters(before, after) ==
    /\ after.load = before.load
    /\ after.battery_capacity = before.battery_capacity
    /\ after.solar_nominal_output = before.solar_nominal_output
    /\ after.latitude = before.latitude
    /\ after.step_size = before.step_size
    /\ after.start_day = before.start_day
    /\ after.end_day = before.end_day

\* every history of before is the beginning of the same history of after
KeepsEntries(before, after) ==
    /\ Prefix(before.charge_history, after.charge_history)
    /\ Prefix(before.history_dates, after.history_dates)
    /\ Prefix(before.solar_history, after.solar_history)
    /\ Prefix(before.daylight_history, after.daylight_history)

\* C16: neither step nor run_simulation changes a parameter: the seven
\* parameters of the returned state equal those of the input, a start_day or
\* end_day of 0 included; step never modifies or removes an existing history
\* entry; the caller's input state is left as it was.
C16_ParametersAndInputUntouched ==
    [][/\ CallStep =>
            /\ SameParameters(sim_state, net')
            /\ KeepsEntries(sim_state, net')
            /\ sim_state' = sim_state
       /\ run_simulation_loop =>
            /\ SameParameters(state, state')
            /\ KeepsEntries(state, state')
            /\ sim_state' = sim_state
       /\ run_simulation_enter =>
            SameParameters(sim_state, state') /\ sim_state' = sim_state
       /\ run_simulation_return =>
            SameParameters(sim_state, result') /\ sim_state' = sim_state]_vars

\* a run from start_day 0 on an input that held an old history has returned:
\* start_day is still 0 and the input still holds its old history
C16_Witness ==
    /\ pc = "idle"
    /\ calls >= 1
    /\ result.start_day = 0
    /\ sim_state.start_day = 0
    /\ Len(result.charge_history) >= 1
    /\ sim_state.charge_history = OldHistory.charge_history
    /\ result.charge_history # sim_state.charge_history

\* the parameter of the simulation state a message names, if it names one
FieldOf(m) ==
    CASE m.type = "BatteryCapacityChanged" -> "battery_capacity"
      [] m.type = "SolarCapacityChanged" -> "solar_nominal_output"
      [] m.type = "LoadChanged" -> "load"
      [] m.type = "LatitudeChanged" -> "latitude"
      [] m.type = "StartDateChanged" -> "start_day"
      [] m.type = "EndDateChanged" -> "end_day"
      [] OTHER -> "none"

\* of the seven parameters only the one m names may differ, and it holds the
\* value of m
OnlyNamedChanged(m, before, after) ==
    /\ \A f \in DOMAIN ParametersOf(before) :
          IF f = FieldOf(m) THEN after[f] = m.value ELSE after[f] = before[f]

\* what run_simulation returns for the parameters of s and nothing else
RunOfParameters(s) ==
    run_simulation(SimState(ParametersOf(s),
                            [current_stored_energy |-> 0, now |-> 0] @@ NoHistory))

\* the histories of a are those of a run on its parameters, and the chart
\* shows them
ShowsCurrentRun(a) ==
    /\ a.sim_state.charge_history = RunOfParameters(a.sim_state).charge_history
    /\ a.sim_state.history_dates = RunOfParameters(a.sim_state).history_dates
    /\ a.sim_state.solar_history = RunOfParameters(a.sim_state).solar_history
    /\ a.sim_state.daylight_history = RunOfParameters(a.sim_state).daylight_history
    /\ a.plot.xs = a.sim_state.history_dates
    /\ a.plot.ys = <<a.sim_state.charge_history>>

\* C17: after every AppState::update, for any sequence of messages, exactly
\* the parameter named by the message has changed (none for ChartEvent and
\* AxisChoiceChanged), the histories of sim_state are those of run_simulation
\* on the current parameters, the x series of the plot is history_dates and
\* its primary series is charge_history.
C17_UpdateShowsCurrentRun ==
    /\ []((pc = "gui" /\ event.type # "none") => ShowsCurrentRun(app))
    /\ [][<<app, event>>' # <<app, event>> =>
            OnlyNamedChanged(event', app.sim_state, app'.sim_state)]_vars

\* the load was changed after a day had been chosen: the chart shows the 32
\* samples of the new run, with charge in some of them
C17_Witness ==
    /\ pc = "gui"
    /\ event.type = "LoadChanged"
    /\ app.sim_state.load = 2000
    /\ app.sim_state.end_day = 2
    /\ app.sim_state.start_day = 1
    /\ Len(app.plot.xs) = 32
    /\ \E i \in 1..Len(app.plot.ys[1]) : app.plot.ys[1][i] > 0

=============================================================================
